---------------------------- MODULE Spec2Model ----------------------------
(* A model of rush, a small interactive shell (src/src/main.rs).            *)
(*                                                                          *)
(* The session process reads raw lines, parses each one into a CmdLine      *)
(* (CmdLine::new), runs it (CmdLine::exec: pipes, forks, closes) and then   *)
(* either records a Job or waits for the children (Rush::run).  Every       *)
(* forked child is a process of its own with a copy of the session's        *)
(* memory and descriptor table taken at the fork.                           *)
(*                                                                          *)
(* Raw lines are sequences of one-character strings; tokens are sequences   *)
(* of characters, so that splitting, joining and substring search are       *)
(* computed the way the code computes them.                                 *)
(*                                                                          *)
(* Environment: fork and pipe are taken to succeed; open, execvp and chdir  *)
(* succeed or fail nondeterministically; process identifiers are fresh.     *)
EXTENDS Integers, Sequences, FiniteSets, TLC

----------------------------------------------------------------------------
(* Bounds of the exploration.                                               *)

\* the longest pipeline the user types
MaxStages == 3

\* the longest pipeline the user puts in the background
MaxBack == 2

\* the number of lines the user types in one session
MaxLines == 2

----------------------------------------------------------------------------
(* Characters and words.                                                    *)

SP == " "
NL == "\n"
NUL == "NUL"

AMP == <<"&">>
BAR == <<"|">>
LT == <<"<">>
GT == <<">">>

\* the string literal "&|<>" of lines 236 and 250
OPCHARS == <<"&", "|", "<", ">">>

W_a == <<"a">>
W_d == <<"d">>
W_f == <<"f">>
W_x == <<"x">>
W_1 == <<"1">>
W_amb == <<"a", "&", "b">>
W_cd == <<"c", "d">>
W_exit == <<"e", "x", "i", "t">>
W_history == <<"h", "i", "s", "t", "o", "r", "y">>
W_jobs == <<"j", "o", "b", "s">>
W_kill == <<"k", "i", "l", "l">>
W_pwd == <<"p", "w", "d">>

\* Option<String>
None == <<>>
Some(s) == <<s>>

----------------------------------------------------------------------------
(* str::split_whitespace, str::find, join.                                  *)

IsWhite(c) == c \in {SP, NL}

RECURSIVE SplitFrom(_, _, _, _)
SplitFrom(line, i, cur, acc) ==
    IF i > Len(line)
    THEN IF cur = <<>> THEN acc ELSE Append(acc, cur)
    ELSE IF IsWhite(line[i])
         THEN SplitFrom(line, i + 1, <<>>,
                        IF cur = <<>> THEN acc ELSE Append(acc, cur))
         ELSE SplitFrom(line, i + 1, Append(cur, line[i]), acc)

split_whitespace(line) == SplitFrom(line, 1, <<>>, <<>>)

\* hay.find(needle).is_some()
find(hay, needle) ==
    \E k \in 0 .. (Len(hay) - Len(needle)) :
        SubSeq(hay, k + 1, k + Len(needle)) = needle

RECURSIVE join(_, _)
join(toks, sep) ==
    IF toks = <<>> THEN <<>>
    ELSE IF Len(toks) = 1 THEN toks[1]
    ELSE toks[1] \o sep \o join(Tail(toks), sep)

----------------------------------------------------------------------------
(* CmdLine::new, lines 206-279.  Token indices are 1-based here, so the     *)
(* code's tokens[i] is toks[i+1]; cmdno stays 0-based as in the code.       *)

ParseInit ==
    [top |-> TRUE, cmds |-> <<>>, back |-> FALSE, filein |-> None,
     fileout |-> None, cmdno |-> 0, ret |-> "go"]

\* BarFollows with the scan of lines 254-259 left out
BarFollows_NoScan(toks, i) == FALSE

\* the forward scan of lines 254-259 from the token after position i
BarFollows(toks, i) == \E j \in (i + 1) .. Len(toks) : toks[j] = BAR

\* one iteration of the loop of line 214, at 1-based position i
ParseToken(toks, i, st) ==
    LET t == toks[i]
        n == Len(toks)
    IN
    IF t = AMP THEN
        IF i # n THEN [st EXCEPT !.ret = "none"]
        ELSE [st EXCEPT !.back = TRUE]
    ELSE IF t = BAR THEN
        IF i = 1 \/ toks[i - 1] = BAR THEN [st EXCEPT !.ret = "none"]
        ELSE [st EXCEPT !.cmdno = @ + 1, !.top = TRUE]
    ELSE IF t = LT THEN
        IF i = n THEN [st EXCEPT !.ret = "none"]
        ELSE IF find(OPCHARS, toks[i + 1]) THEN [st EXCEPT !.ret = "none"]
        ELSE IF st.cmdno > 0 THEN [st EXCEPT !.ret = "none"]
        ELSE [st EXCEPT !.filein = Some(toks[i + 1])]
    ELSE IF t = GT THEN
        IF i = n THEN [st EXCEPT !.ret = "none"]
        ELSE IF find(OPCHARS, toks[i + 1]) THEN [st EXCEPT !.ret = "none"]
        ELSE IF BarFollows(toks, i) THEN [st EXCEPT !.ret = "none"]
        ELSE [st EXCEPT !.fileout = Some(toks[i + 1])]
    ELSE
        IF i = 1 \/ (toks[i - 1] # LT /\ toks[i - 1] # GT) THEN
            LET cmds1 == IF st.top THEN Append(st.cmds, <<>>) ELSE st.cmds
            IN
            \* cmds[cmdno] of line 268: an index past the end panics
            IF st.cmdno + 1 > Len(cmds1) THEN [st EXCEPT !.ret = "panic"]
            ELSE [st EXCEPT !.top = FALSE,
                            !.cmds = [cmds1 EXCEPT ![st.cmdno + 1] = Append(@, t)]]
        ELSE st

RECURSIVE ParseFrom(_, _, _)
ParseFrom(toks, i, st) ==
    IF st.ret # "go" THEN st
    ELSE IF i > Len(toks) THEN [st EXCEPT !.ret = "some"]
    ELSE ParseFrom(toks, i + 1, ParseToken(toks, i, st))

\* ret is "some" (Some(CmdLine)), "none" (None) or "panic" (the thread
\* panics on an out-of-range index and the process aborts)
CmdLine_new(line) == ParseFrom(split_whitespace(line), 1, ParseInit)

CmdLine_len(cl) == Len(cl.cmds)

----------------------------------------------------------------------------
(* Descriptors.  A pipe descriptor is named by the line that created it,    *)
(* the pipe's index and its end: fd[i][0] reads, fd[i][1] writes.           *)

TTY == [k |-> "tty"]
Pipe(ln, i, e) == [k |-> "pipe", ln |-> ln, i |-> i, e |-> e]
File(path, mode) == [k |-> "file", path |-> path, mode |-> mode]

RD == 0
WR == 1

----------------------------------------------------------------------------
(* Cmd, lines 95-196.  A Cmd is its token list cmd.                         *)

Cmd_prog(cmd) == cmd[1]

\* Cmd_is_builtin with "cd" missing from the match of line 116
Cmd_is_builtin_NoCd(cmd) ==
    Cmd_prog(cmd) \in {W_exit, W_history, W_jobs, W_kill, W_pwd}

\* lines 114-119
Cmd_is_builtin(cmd) ==
    Cmd_prog(cmd) \in {W_cd, W_exit, W_history, W_jobs, W_kill, W_pwd}

\* Cmd_prog_num with < for the != of line 122
Cmd_prog_num_AtLeast(cmd, num) == Len(cmd) - 1 >= num

\* lines 121-128
Cmd_prog_num(cmd, num) == Len(cmd) - 1 = num

\* str::parse::<pid_t> on the decimal digits the inputs use; 0 - 1 is Err
Digit(c) ==
    CASE c = "0" -> 0 [] c = "1" -> 1 [] c = "2" -> 2 [] c = "3" -> 3
      [] c = "4" -> 4 [] c = "5" -> 5 [] c = "6" -> 6 [] c = "7" -> 7
      [] c = "8" -> 8 [] c = "9" -> 9 [] OTHER -> 0 - 1

RECURSIVE ParsePidFrom(_, _, _)
ParsePidFrom(arg, i, acc) ==
    IF i > Len(arg) THEN acc
    ELSE IF Digit(arg[i]) < 0 THEN 0 - 1
    ELSE ParsePidFrom(arg, i + 1, acc * 10 + Digit(arg[i]))

parse_pid(arg) == ParsePidFrom(arg, 1, 0)

\* A process is live from its fork until it exits.
Live(pr) == pr.st \in {"forked", "running"}

\* waitpid(pid, WNOHANG) called by process self (0 is the session, the
\* parent of every child): 0 while the child runs, pid when it reaps an
\* exited child, -1 when pid is no unwaited child of the caller.
waitpid_nohang(self, pid, ps) ==
    IF self # 0 \/ pid \notin DOMAIN ps THEN 0 - 1
    ELSE IF Live(ps[pid]) THEN 0
    ELSE IF ps[pid].st = "exited" THEN pid
    ELSE 0 - 1

\* the inner loop of lines 153-158 over one job's pids: the 1-based index
\* of the first pid whose probe returns 0, or 0 when there is none
FirstRunning(self, pids, ps) ==
    IF \E n \in 1 .. Len(pids) : waitpid_nohang(self, pids[n], ps) = 0
    THEN CHOOSE n \in 1 .. Len(pids) :
            /\ waitpid_nohang(self, pids[n], ps) = 0
            /\ \A m \in 1 .. (n - 1) : waitpid_nohang(self, pids[m], ps) # 0
    ELSE 0

\* the pids the loop probes before it breaks
Probed(self, pids, ps) ==
    LET f == FirstRunning(self, pids, ps)
    IN  {pids[n] : n \in 1 .. (IF f = 0 THEN Len(pids) ELSE f)}

\* what the jobs builtin prints, lines 152-159
RECURSIVE JobsListing(_, _, _)
JobsListing(self, js, ps) ==
    IF js = <<>> THEN <<>>
    ELSE (IF FirstRunning(self, js[1][1], ps) # 0 THEN <<js[1][2]>> ELSE <<>>)
         \o JobsListing(self, Tail(js), ps)

\* the children the jobs builtin reaps on the way
JobsReaped(self, js, ps) ==
    {p \in UNION {Probed(self, js[n][1], ps) : n \in 1 .. Len(js)} :
        waitpid_nohang(self, p, ps) = p}

\* what the history builtin prints, lines 143-147: (hisno, cmd) pairs
HistoryListing(hist) == [n \in 1 .. Len(hist) |-> <<n, hist[n]>>]

\* One run of a command, Cmd::exec lines 130-195, in process self.  The
\* result is the set of outcomes the environment allows:
\*   act     what happened
\*   cwd     the process's working directory afterwards
\*   printed the listing written to standard output
\*   reaped  the children reaped by the probes of jobs
\*   target  the pid signalled by kill, 0 for none
Outcome(act, cwd, printed, reaped, target) ==
    [act |-> act, cwd |-> cwd, printed |-> printed, reaped |-> reaped,
     target |-> target]

Cmd_exec(cmd, self, cwd, hist, js, ps) ==
    LET prog == Cmd_prog(cmd)
        arity == {Outcome("arity", cwd, <<>>, {}, 0)}
    IN
    IF prog = W_cd THEN
        IF Cmd_prog_num(cmd, 1)
        THEN {Outcome("chdir", cmd[2], <<>>, {}, 0),
              Outcome("chdir_failed", cwd, <<>>, {}, 0)}
        ELSE arity
    ELSE IF prog = W_history THEN
        IF Cmd_prog_num(cmd, 0)
        THEN {Outcome("history", cwd, HistoryListing(hist), {}, 0)}
        ELSE arity
    ELSE IF prog = W_jobs THEN
        IF Cmd_prog_num(cmd, 0)
        THEN {Outcome("jobs", cwd, JobsListing(self, js, ps),
                      JobsReaped(self, js, ps), 0)}
        ELSE arity
    ELSE IF prog = W_exit THEN
        IF Cmd_prog_num(cmd, 0)
        THEN {Outcome("exit", cwd, <<>>, {}, 0)}
        ELSE arity
    ELSE IF prog = W_kill THEN
        IF Cmd_prog_num(cmd, 1)
        THEN IF parse_pid(cmd[2]) >= 0
             THEN {Outcome("kill", cwd, <<>>, {}, parse_pid(cmd[2]))}
             ELSE {Outcome("kill_nan", cwd, <<>>, {}, 0)}
        ELSE arity
    ELSE IF prog = W_pwd THEN
        IF Cmd_prog_num(cmd, 0)
        THEN {Outcome("pwd", cwd, <<cwd>>, {}, 0)}
        ELSE arity
    ELSE {Outcome("image", cwd, <<>>, {}, 0),
          Outcome("execvp_failed", cwd, <<>>, {}, 0)}

----------------------------------------------------------------------------
(* The lines the user types.  A raw line is its tokens joined by single     *)
(* spaces and ended by a newline, as the terminal delivers it.              *)

RECURSIVE Stages(_, _)
Stages(cmd, n) == IF n = 1 THEN cmd ELSE cmd \o <<BAR>> \o Stages(cmd, n - 1)

\* a | a | ... | a, plain, with redirections, in the background
PipeLines ==
    UNION {
        LET ts == Stages(<<W_a>>, n)
            tsin == <<W_a, LT, W_f>> \o Tail(ts)
        IN  {ts, tsin, ts \o <<GT, W_f>>, tsin \o <<GT, W_f>>}
            \cup (IF n <= MaxBack THEN {ts \o <<AMP>>} ELSE {})
        : n \in 1 .. MaxStages}

\* the builtins alone, with the right and a wrong number of arguments
BuiltinLines ==
    {<<W_cd, W_d>>, <<W_cd>>, <<W_jobs>>, <<W_history>>, <<W_exit>>,
     <<W_jobs, AMP>>, <<W_cd, W_d, LT, W_f>>, <<W_pwd>>, <<W_kill, W_1>>,
     <<W_kill>>, <<W_kill, W_1, W_1>>, <<W_exit, W_x>>, <<W_history, W_x>>, <<W_jobs, W_x>>,
     <<W_pwd, W_x>>, <<W_pwd, GT, W_f>>}

\* a builtin as a stage of a pipeline
BuiltinStageLines ==
    {<<W_cd, W_d, BAR, W_a>>, <<W_a, BAR, W_cd, W_d>>, <<W_cd, BAR, W_a>>,
     <<W_jobs, BAR, W_a>>, <<W_history, BAR, W_a>>, <<W_exit, BAR, W_a>>,
     <<W_exit, W_x, BAR, W_a>>}

\* lines the parser rejects, accepts with no stage, or cannot handle
OddLines ==
    {<<>>, <<AMP>>, <<LT, W_f>>, <<BAR, W_a>>, <<W_a, AMP, W_a>>,
     <<W_a, LT>>, <<W_a, GT, W_f, BAR, W_a>>, <<LT, W_f, BAR, W_a>>}

\* a word with an operator character inside, in the background
AmpWordLines == {<<W_amb, AMP>>}

TokenLines ==
    PipeLines \cup BuiltinLines \cup BuiltinStageLines \cup OddLines
        \cup AmpWordLines

\* what read_line returns: a line with its newline, a last line that the
\* end of input cuts short of one, a line with a NUL byte in it; the empty
\* string is end of input
RawLines ==
    {join(ts, <<SP>>) \o <<NL>> : ts \in TokenLines}
        \cup {<<"a", SP, "&">>, <<"a", NUL, NL>>}

EOF == <<>>

----------------------------------------------------------------------------
(* State.                                                                   *)

VARIABLES
    typed,      \* the raw lines read_line has returned so far, in order
    pc,         \* where the session process is: "read", "exec", "fork",
                \* "close", "ret", "wait", "done" (exited), "panic" (aborted)
    nread,      \* the number of lines read so far
    line,       \* Rush::run's line, newline stripped
    cmdline,    \* Rush::run's cmdline
    pids,       \* CmdLine::exec's pids
    k,          \* the stage CmdLine::exec forks next (0-based)
    widx,       \* the 1-based position in pids of the next blocking wait
    history,    \* Rush::history
    jobs,       \* Rush::jobs, pairs <<pids, text>>
    cwd,        \* the session's working directory
    sfds,       \* the pipe descriptors open in the session
    closed,     \* the descriptors the session closed in this exec, in order
    sact,       \* what the last builtin run in the session did
    sprinted,   \* what it printed
    sio,        \* the session's descriptors on slots 0 and 1
    procs       \* the children ever forked, indexed by pid

vars == <<typed, pc, nread, line, cmdline, pids, k, widx, history, jobs, cwd, sfds,
          closed, sact, sprinted, sio, procs>>

NoCmdLine == [cmds |-> <<>>, back |-> FALSE, filein |-> None, fileout |-> None]

Init ==
    /\ typed = <<>>
    /\ pc = "read"
    /\ nread = 0
    /\ line = <<>>
    /\ cmdline = NoCmdLine
    /\ pids = <<>>
    /\ k = 0
    /\ widx = 0
    /\ history = <<>>
    /\ jobs = <<>>
    /\ cwd = <<"/">>
    /\ sfds = {}
    /\ closed = <<>>
    /\ sact = "none"
    /\ sprinted = <<>>
    /\ sio = <<TTY, TTY>>
    /\ procs = <<>>

----------------------------------------------------------------------------
(* Rush::run, lines 380-416: read and parse one line.                       *)

\* strip_newline without the pop of line 400
strip_newline_Keep(raw) == raw

\* lines 399-401
strip_newline(raw) ==
    IF raw[Len(raw)] = NL THEN SubSeq(raw, 1, Len(raw) - 1) ELSE raw

HasNul(raw) == \E n \in 1 .. Len(raw) : raw[n] = NUL

\* line 406
JobText(l) ==
    join(split_whitespace(SelectSeq(l, LAMBDA c : c # "&")), <<SP>>)

\* one iteration of the loop of line 381 up to the call of exec, on a raw
\* line that read_line draws from Lines
ReadFrom(Lines) ==
    /\ pc = "read"
    /\ \E raw \in Lines :
        IF Len(raw) = 0 THEN
            \* line 393: exit(0)
            /\ pc' = "done"
            /\ UNCHANGED <<typed, nread, line, cmdline, history>>
        ELSE IF HasNul(raw) THEN
            \* line 397: continue
            /\ nread' = nread + 1
            /\ typed' = Append(typed, raw)
            /\ UNCHANGED <<pc, line, cmdline, history>>
        ELSE
            LET l == strip_newline(raw)
                r == CmdLine_new(l)
            IN
            /\ nread' = nread + 1
            /\ typed' = Append(typed, raw)
            /\ IF r.ret = "panic" THEN
                   /\ pc' = "panic"
                   /\ line' = l
                   /\ UNCHANGED <<cmdline, history>>
               ELSE IF r.ret = "none" THEN
                   \* line 414
                   /\ history' = Append(history, l)
                   /\ UNCHANGED <<pc, line, cmdline>>
               ELSE
                   /\ pc' = "exec"
                   /\ line' = l
                   /\ cmdline' = [cmds |-> r.cmds, back |-> r.back,
                                  filein |-> r.filein, fileout |-> r.fileout]
                   /\ UNCHANGED history
    /\ UNCHANGED <<sio, pids, k, widx, jobs, cwd, sfds, closed, sact, sprinted,
                   procs>>

\* the user types one of RawLines, or the input ends
ReadLine == ReadFrom(IF nread < MaxLines THEN RawLines \cup {EOF} ELSE {EOF})

----------------------------------------------------------------------------
(* Processes.                                                               *)

\* fork(): the child starts with the session's memory and descriptors
NewChild(kind, stage) ==
    [ln |-> nread, stage |-> stage, kind |-> kind, st |-> "forked",
     status |-> 0, fd0 |-> sio[1], fd1 |-> sio[2], held |-> sfds,
     cl |-> cmdline, hist |-> history, js |-> jobs, cwd |-> cwd,
     act |-> "none", ncmd |-> 0, printed |-> <<>>, err |-> "none"]

\* kill(pid, SIGTERM) with the default disposition
Signal(ps, target) ==
    IF target \in DOMAIN ps /\ Live(ps[target])
    THEN [ps EXCEPT ![target].st = "exited", ![target].status = 143]
    ELSE ps

\* waitpid reaps an exited child: the process is gone, and with it its
\* memory and descriptors; its pid and exit status are what is left
Reaped(ch) ==
    [ln |-> ch.ln, stage |-> ch.stage, kind |-> ch.kind, st |-> "reaped",
     status |-> ch.status, fd0 |-> TTY, fd1 |-> TTY, held |-> {},
     cl |-> NoCmdLine, hist |-> <<>>, js |-> <<>>, cwd |-> <<>>,
     act |-> "none", ncmd |-> 0, printed |-> <<>>, err |-> "none"]

Reap(ps, set) ==
    [p \in DOMAIN ps |->
        IF p \in set /\ ps[p].st = "exited" THEN Reaped(ps[p]) ELSE ps[p]]

----------------------------------------------------------------------------
(* The block a process runs when fork returned 0 to it, up to its command:  *)
(* the redirections and the pipe ends on slots 0 and 1.                     *)

\* exit(status), line 35: the process ends here and nothing after it runs
exit(ch, status) == [ch EXCEPT !.st = "exited", !.status = status]

\* perror, line 74: the diagnostic the process writes to standard error
perror(ch, what) == [ch EXCEPT !.err = what]

\* dup2 with the arguments of line 22 in the wrong order: the slot comes
\* out on the other side
dup2_Swapped(ch, src, dst) ==
    IF ch.st # "forked" \/ src \notin ch.held THEN ch
    ELSE IF dst = 0 THEN [ch EXCEPT !.fd1 = src]
    ELSE [ch EXCEPT !.fd0 = src]

\* dup2(src, dst), line 20: a source that is not open leaves the slot alone
dup2(ch, src, dst) ==
    IF ch.st # "forked" \/ src \notin ch.held THEN ch
    ELSE IF dst = 0 THEN [ch EXCEPT !.fd0 = src]
    ELSE [ch EXCEPT !.fd1 = src]

\* dupin without the exit(1) of line 290
dupin_NoExit(ch, ok) ==
    IF ch.st # "forked" \/ ch.cl.filein = None THEN ch
    ELSE IF ~ok THEN perror(ch, "openr")
    ELSE [ch EXCEPT !.fd0 = File(ch.cl.filein[1], "r")]

\* CmdLine::dupin, lines 285-296; ok says whether openr succeeds.  The
\* opened descriptor is closed again at line 293 and never stays in held.
dupin(ch, ok) ==
    IF ch.st # "forked" \/ ch.cl.filein = None THEN ch
    ELSE IF ~ok THEN exit(perror(ch, "openr"), 1)
    ELSE [ch EXCEPT !.fd0 = File(ch.cl.filein[1], "r")]

\* CmdLine::dupout, lines 298-309; ok says whether openw succeeds
dupout(ch, ok) ==
    IF ch.st # "forked" \/ ch.cl.fileout = None THEN ch
    ELSE IF ~ok THEN exit(perror(ch, "openw"), 1)
    ELSE [ch EXCEPT !.fd1 = File(ch.cl.fileout[1], "w")]

\* lines 320-321, 335-336, 345-346, 356-357
ChildSetup(ch, okin, okout) ==
    LET len == CmdLine_len(ch.cl)
        i == ch.stage
    IN
    IF ch.kind = "only" THEN dupout(dupin(ch, okin), okout)
    ELSE IF ch.kind = "first"
        THEN dup2(dupin(ch, okin), Pipe(ch.ln, 0, WR), 1)
    ELSE IF ch.kind = "middle"
        THEN dup2(dup2(ch, Pipe(ch.ln, i - 1, RD), 0), Pipe(ch.ln, i, WR), 1)
    ELSE dup2(dupout(ch, okout), Pipe(ch.ln, len - 2, RD), 0)

----------------------------------------------------------------------------
(* CmdLine::exec in the session, lines 311-364.                             *)

\* line 326 is not taken and line 313 neither: no stage at all
ExecEmpty ==
    /\ pc = "exec"
    /\ CmdLine_len(cmdline) = 0
    /\ pc' = "ret"
    /\ pids' = <<>>
    /\ closed' = <<>>
    /\ UNCHANGED <<sio, typed, nread, line, cmdline, k, widx, history, jobs, cwd, sfds,
                   sact, sprinted, procs>>

\* lines 313-315: the only command is a builtin and runs in the session
ExecBuiltin ==
    /\ pc = "exec"
    /\ CmdLine_len(cmdline) = 1
    /\ Cmd_is_builtin(cmdline.cmds[1])
    /\ \E o \in Cmd_exec(cmdline.cmds[1], 0, cwd, history, jobs, procs) :
        /\ pc' = IF o.act = "exit" THEN "done" ELSE "ret"
        /\ cwd' = o.cwd
        /\ sact' = o.act
        /\ sprinted' = o.printed
        /\ procs' = Signal(Reap(procs, o.reaped), o.target)
    /\ pids' = <<>>
    /\ closed' = <<>>
    /\ UNCHANGED <<sio, typed, nread, line, cmdline, k, widx, history, jobs, sfds>>

\* InChild with the test of pid left out
InChild_Always(pid) == TRUE

\* the test pid == 0 of lines 319, 334, 344, 355: fork returns 0 in the
\* child and the child's pid in the session
InChild(pid) == pid = 0

\* The session's side of a fork that returned pid to it and created a child
\* of the given kind for the given stage: it skips the child's block and
\* goes on at next.  A process that takes the block sets up its slots 0
\* and 1, runs the command and exits.
SessionAfterFork(pid, kind, stage, next) ==
    IF InChild(pid)
    THEN \E okin \in BOOLEAN, okout \in BOOLEAN :
            LET me == ChildSetup(NewChild(kind, stage), okin, okout)
            IN  /\ sio' = <<me.fd0, me.fd1>>
                /\ pc' = "done"
    ELSE /\ sio' = sio
         /\ pc' = next

\* lines 316-318: the only command is a program, one fork
ExecSingle ==
    /\ pc = "exec"
    /\ CmdLine_len(cmdline) = 1
    /\ ~Cmd_is_builtin(cmdline.cmds[1])
    /\ procs' = Append(procs, NewChild("only", 0))
    /\ pids' = <<Len(procs) + 1>>
    /\ SessionAfterFork(Len(procs) + 1, "only", 0, "ret")
    /\ closed' = <<>>
    /\ UNCHANGED <<typed, nread, line, cmdline, k, widx, history, jobs, cwd, sfds,
                   sact, sprinted>>

\* lines 327-331: len-1 pipes
ExecPipes ==
    /\ pc = "exec"
    /\ CmdLine_len(cmdline) > 1
    /\ sfds' = sfds \cup {Pipe(nread, i, e) :
                            i \in 0 .. (CmdLine_len(cmdline) - 2), e \in {RD, WR}}
    /\ pids' = <<>>
    /\ closed' = <<>>
    /\ k' = 0
    /\ pc' = "fork"
    /\ UNCHANGED <<sio, typed, nread, line, cmdline, widx, history, jobs, cwd, sact,
                   sprinted, procs>>

StageKind(stage, len) ==
    IF stage = 0 THEN "first" ELSE IF stage = len - 1 THEN "last" ELSE "middle"

\* lines 332-333, 342-343, 353-354: fork stage k
ForkStage ==
    /\ pc = "fork"
    /\ procs' = Append(procs, NewChild(StageKind(k, CmdLine_len(cmdline)), k))
    /\ pids' = Append(pids, Len(procs) + 1)
    /\ SessionAfterFork(Len(procs) + 1, StageKind(k, CmdLine_len(cmdline)), k,
                        "close")
    /\ UNCHANGED <<typed, nread, line, cmdline, k, widx, history, jobs, cwd, sfds,
                   closed, sact, sprinted>>

\* ClosesAfter without the closes of the write ends, lines 340 and 351
ClosesAfter_ReadEnds(i, len) ==
    IF i = 0 THEN <<>>
    ELSE IF i = len - 1 THEN << <<len - 2, RD>> >>
    ELSE << <<i - 1, RD>> >>

\* ClosesAfter without the close of line 361
ClosesAfter_NoLast(i, len) ==
    IF i = 0 THEN << <<0, WR>> >>
    ELSE IF i = len - 1 THEN <<>>
    ELSE << <<i - 1, RD>>, <<i, WR>> >>

\* what the session closes after the fork of stage i of len:
\* line 340, lines 350-351, line 361, as <<pipe index, end>> in order
ClosesAfter(i, len) ==
    IF i = 0 THEN << <<0, WR>> >>
    ELSE IF i = len - 1 THEN << <<len - 2, RD>> >>
    ELSE << <<i - 1, RD>>, <<i, WR>> >>

\* NextStage with the loop of line 341 never entered
NextStage_NoMiddle(i, len) == IF i = 0 THEN len - 1 ELSE i + 1

\* the stage forked after stage i: the loop of line 341, then line 353
NextStage(i, len) == i + 1

CloseStage ==
    /\ pc = "close"
    /\ LET len == CmdLine_len(cmdline)
           cs == ClosesAfter(k, len)
           ds == [n \in 1 .. Len(cs) |-> Pipe(nread, cs[n][1], cs[n][2])]
       IN
       /\ sfds' = sfds \ {ds[n] : n \in 1 .. Len(ds)}
       /\ closed' = closed \o ds
       /\ IF k = len - 1
          THEN pc' = "ret" /\ k' = 0
          ELSE pc' = "fork" /\ k' = NextStage(k, len)
    /\ UNCHANGED <<sio, typed, nread, line, cmdline, pids, widx, history, jobs, cwd, sact,
                   sprinted, procs>>

----------------------------------------------------------------------------
(* Rush::run after exec, lines 405-414.                                     *)

Return ==
    /\ pc = "ret"
    /\ IF cmdline.back THEN
           \* lines 406-407, 414
           /\ jobs' = Append(jobs, <<pids, JobText(line)>>)
           /\ history' = Append(history, line)
           /\ pc' = "read"
           /\ widx' = 0
       ELSE IF pids = <<>> THEN
           \* line 409 runs no iteration, line 414
           /\ history' = Append(history, line)
           /\ pc' = "read"
           /\ UNCHANGED <<jobs, widx>>
       ELSE
           /\ pc' = "wait"
           /\ widx' = 1
           /\ UNCHANGED <<jobs, history>>
    /\ UNCHANGED <<sio, typed, nread, line, cmdline, pids, k, cwd, sfds, closed, sact,
                   sprinted, procs>>

\* waitpid_blocks with WNOHANG in place of 0
waitpid_blocks_NoHang(pid, ps) == FALSE

\* waitpid(pid, 0), line 410, blocks while the child is live
waitpid_blocks(pid, ps) == pid \in DOMAIN ps /\ Live(ps[pid])

\* line 410: waitpid(pid, 0) returns once the child has exited, and reaps it
WaitPid ==
    /\ pc = "wait"
    /\ ~waitpid_blocks(pids[widx], procs)
    /\ procs' = Reap(procs, {pids[widx]})
    /\ IF widx = Len(pids)
       THEN /\ history' = Append(history, line)
            /\ pc' = "read"
            /\ widx' = 0
       ELSE /\ widx' = widx + 1
            /\ UNCHANGED <<history, pc>>
    /\ UNCHANGED <<sio, typed, nread, line, cmdline, pids, k, jobs, cwd, sfds, closed,
                   sact, sprinted>>

----------------------------------------------------------------------------
(* CmdLine::exec in a forked child: the pid == 0 branches.                  *)

\* AfterCmd without the exit: the child leaves the if and returns pids
AfterCmd_Returns == "returned"

\* lines 323, 338, 348, 359: exit(0) once the command has returned
AfterCmd == "exited"

\* lines 322, 337, 347, 358 and the exit after them, for outcome o
ChildRan(ch, o) ==
    [ch EXCEPT !.act = o.act, !.cwd = o.cwd, !.printed = o.printed,
               !.ncmd = @ + 1, !.status = 0,
               !.st = IF o.act = "image" THEN "running"
                      ELSE IF o.act = "exit" THEN "exited"
                      ELSE AfterCmd]

ChildStart(p) ==
    /\ procs[p].st = "forked"
    /\ \E okin \in BOOLEAN, okout \in BOOLEAN :
        LET c1 == ChildSetup(procs[p], okin, okout)
        IN
        IF c1.st = "exited"
        THEN procs' = [procs EXCEPT ![p] = c1]
        ELSE \E o \in Cmd_exec(c1.cl.cmds[c1.stage + 1], p, c1.cwd, c1.hist,
                               c1.js, procs) :
                procs' = Signal([procs EXCEPT ![p] = ChildRan(c1, o)], o.target)
    /\ UNCHANGED <<sio, typed, pc, nread, line, cmdline, pids, k, widx, history, jobs, cwd,
                   sfds, closed, sact, sprinted>>

\* the program the child became ends
ProgExit(p) ==
    /\ procs[p].st = "running"
    /\ procs' = [procs EXCEPT ![p].st = "exited"]
    /\ UNCHANGED <<sio, typed, pc, nread, line, cmdline, pids, k, widx, history, jobs, cwd,
                   sfds, closed, sact, sprinted>>

\* a process holds every descriptor it inherited and never closed, and
\* those on its slots 0 and 1, from its fork until it exits; the code and
\* the image after execvp close none (lines 334-339, 344-349, 355-360)
Holds(pr, d) == Live(pr) /\ (d \in pr.held \/ pr.fd0 = d \/ pr.fd1 = d)

\* the processes that hold descriptor d; 0 is the session
Holders(d) ==
    (IF d \in sfds THEN {0} ELSE {})
        \cup {p \in DOMAIN procs : Holds(procs[p], d)}

\* a read of pipe i of line ln returns end-of-stream once no process holds
\* its write end
EndOfStream(ln, i) == Holders(Pipe(ln, i, WR)) = {}

\* the program of a later stage reads end-of-stream on its standard input
\* and ends
ReadEof(p) ==
    /\ procs[p].st = "running"
    /\ procs[p].fd0 = Pipe(procs[p].ln, procs[p].stage - 1, RD)
    /\ EndOfStream(procs[p].ln, procs[p].stage - 1)
    /\ procs' = [procs EXCEPT ![p].st = "exited"]
    /\ UNCHANGED <<sio, typed, pc, nread, line, cmdline, pids, k, widx, history,
                   jobs, cwd, sfds, closed, sact, sprinted>>

----------------------------------------------------------------------------

Next ==
    \/ ReadLine
    \/ ExecEmpty
    \/ ExecBuiltin
    \/ ExecSingle
    \/ ExecPipes
    \/ ForkStage
    \/ CloseStage
    \/ Return
    \/ WaitPid
    \/ \E p \in DOMAIN procs : ChildStart(p)
    \/ \E p \in DOMAIN procs : ProgExit(p)
    \/ \E p \in DOMAIN procs : ReadEof(p)

Spec == Init /\ [][Next]_vars

\* the steps of the session between two reads
SessionStep ==
    \/ ExecEmpty
    \/ ExecBuiltin
    \/ ExecSingle
    \/ ExecPipes
    \/ ForkStage
    \/ CloseStage
    \/ Return
    \/ WaitPid

\* the most children one session forks
MaxPids == MaxLines * MaxStages

\* the first stage of a foreground pipeline ends on its own
FirstStageExit(p) ==
    /\ p \in DOMAIN procs
    /\ procs[p].kind = "first"
    /\ ~procs[p].cl.back
    /\ ProgExit(p)

\* a later stage of a foreground pipeline ends when it reads end-of-stream
LaterStageEof(p) ==
    /\ p \in DOMAIN procs
    /\ ~procs[p].cl.back
    /\ ReadEof(p)

\* The session is a sequential program that runs on until it blocks in
\* read_line or waitpid; the scheduler runs every forked child; the
\* programs of a foreground pipeline end as FirstStageExit and
\* LaterStageEof say.
FairSpec ==
    /\ Spec
    /\ WF_vars(SessionStep)
    /\ \A p \in 1 .. MaxPids :
        /\ WF_vars(p \in DOMAIN procs /\ ChildStart(p))
        /\ WF_vars(FirstStageExit(p))
        /\ WF_vars(LaterStageEof(p))

----------------------------------------------------------------------------
(* The parser on every short line: the session reads one line out of all    *)
(* the lines of at most MaxTokens tokens, parses it and enters exec with    *)
(* what CmdLine::new returned.                                              *)

\* the longest line, in tokens
MaxTokens == 5

\* a word made of operator characters
W_ltgt == <<"<", ">">>

\* words, a builtin, the four operators
ParseAlphabet == {W_a, W_f, W_cd, W_ltgt, AMP, BAR, LT, GT}

ParseTokenLines == UNION {[1 .. n -> ParseAlphabet] : n \in 0 .. MaxTokens}

ParseRawLines == {join(ts, <<SP>>) \o <<NL>> : ts \in ParseTokenLines}

\* lines 387-403 on the first line of the session
ParseRead == nread = 0 /\ ReadFrom(ParseRawLines)

NextParse ==
    \/ ParseRead
    \/ ExecEmpty
    \/ ExecBuiltin
    \/ ExecSingle
    \/ ExecPipes

SpecParse == Init /\ [][NextParse]_vars

----------------------------------------------------------------------------
(* Properties.                                                              *)

Range(f) == {f[n] : n \in DOMAIN f}

Children == DOMAIN procs

\* the descriptors of the len-1 pipes of line ln
PipeFds(ln, len) == {Pipe(ln, i, e) : i \in 0 .. (len - 2), e \in {RD, WR}}

\* the stage that uses a pipe end: stage i writes pipe i, stage i+1 reads it
UserStage(d) == IF d.e = WR THEN d.i ELSE d.i + 1

\* C1: in a pipeline of N >= 2 stages the session creates N-1 pipes and
\* closes each of their 2*(N-1) descriptors exactly once, never before the
\* stage that uses the descriptor has been forked, and holds no pipe
\* descriptor when exec returns.
C1_PipesClosedOnce ==
    LET len == CmdLine_len(cmdline)
    IN
    /\ (pc \in {"fork", "close", "ret"} /\ len >= 2) =>
        /\ sfds \cup Range(closed) = PipeFds(nread, len)
        /\ Cardinality(PipeFds(nread, len)) = 2 * (len - 1)
        /\ \A m, n \in DOMAIN closed : m # n => closed[m] # closed[n]
        /\ \A n \in DOMAIN closed :
            /\ closed[n] \notin sfds
            /\ UserStage(closed[n]) < Len(pids)
    /\ (pc = "ret" /\ len >= 2) =>
        /\ sfds = {}
        /\ Len(closed) = 2 * (len - 1)
    /\ pc \in {"read", "exec", "ret", "wait", "done", "panic"} => sfds = {}

C1_Witness ==
    /\ pc = "ret"
    /\ CmdLine_len(cmdline) >= 3
    /\ sfds = {}
    /\ Len(closed) = 2 * (CmdLine_len(cmdline) - 1)

\* C2: every forked child runs at most one command and is terminated once
\* that command has returned or a redirection has failed; no child is ever
\* back in the code of the read-eval loop.
C2_ChildTerminates ==
    \A p \in Children :
        LET ch == procs[p]
        IN
        /\ ch.st \in {"forked", "running", "exited", "reaped"}
        /\ ch.ncmd <= 1
        /\ ch.st = "forked" => (ch.ncmd = 0 /\ ch.act = "none")
        /\ ch.st = "running" => (ch.ncmd = 1 /\ ch.act = "image")
        /\ (ch.act \notin {"none", "image"} \/ ch.err # "none") =>
                ch.st = "exited"

C2_Witness ==
    /\ \E p \in Children :
        procs[p].act = "chdir" /\ procs[p].st = "exited"
    /\ \E p \in Children :
        procs[p].act = "execvp_failed" /\ procs[p].st = "exited"

\* the lines History holds that the parser accepts with the background flag
BackLines ==
    SelectSeq(history, LAMBDA l :
        CmdLine_new(l).ret = "some" /\ CmdLine_new(l).back)

\* C3: while a child of a foreground line is live the session is still
\* executing or waiting for that very line; the blocking waits go through
\* pids in stage order; only background lines are recorded as Jobs.
C3_ForegroundWaits ==
    /\ \A p \in Children :
        (Live(procs[p]) /\ ~procs[p].cl.back) =>
            /\ pc \in {"fork", "close", "ret", "wait"}
            /\ procs[p].ln = nread
    /\ pc = "wait" =>
        /\ ~cmdline.back
        /\ widx \in 1 .. Len(pids)
        /\ \A n \in 1 .. Len(pids) :
            /\ procs[pids[n]].stage = n - 1
            /\ (n < widx) <=> (procs[pids[n]].st = "reaped")
    /\ Len(jobs) = Len(BackLines)

C3_Witness ==
    /\ pc = "wait"
    /\ widx = 2
    /\ Live(procs[pids[2]])
    /\ jobs = <<>>

\* the number of pids exec returns for an accepted line: one per forked
\* stage, and a builtin that is the only stage is not forked
ForkedStages(cl) ==
    IF CmdLine_len(cl) = 1 /\ Cmd_is_builtin(cl.cmds[1]) THEN 0
    ELSE CmdLine_len(cl)

\* C4 as claimed: exec returns exactly one pid per stage, in stage order,
\* and every Job holds one pid per stage of its pipeline.
C4_OnePidPerStage ==
    /\ pc = "ret" => Len(pids) = CmdLine_len(cmdline)
    /\ \A n \in 1 .. Len(jobs) :
        n <= Len(BackLines) =>
            Len(jobs[n][1]) = CmdLine_len(CmdLine_new(BackLines[n]))

\* C4 as amended: exec returns one pid per forked stage in stage order,
\* which is one per stage except for a line whose only stage is a builtin,
\* where the list is empty; every Job holds the list exec returned.
C4_OnePidPerForkedStage ==
    /\ pc = "ret" =>
        /\ Len(pids) = ForkedStages(cmdline)
        /\ \A n \in 1 .. Len(pids) :
            procs[pids[n]].stage = n - 1 /\ procs[pids[n]].ln = nread
    /\ Len(jobs) = Len(BackLines)
    /\ \A n \in 1 .. Len(jobs) :
        /\ Len(jobs[n][1]) = ForkedStages(CmdLine_new(BackLines[n]))
        /\ \A m \in 1 .. Len(jobs[n][1]) : procs[jobs[n][1][m]].stage = m - 1

C4_Witness ==
    /\ pc = "ret"
    /\ cmdline.back
    /\ CmdLine_len(cmdline) = 1
    /\ pids = <<>>
    /\ Len(jobs) = 1
    /\ Len(jobs[1][1]) = 2

\* C5: parsing always completes with Some or None; no line makes the
\* parser abort the session.
C5_ParserTotal == pc # "panic"

\* raw lines without a NUL byte
NonNul(raws) == SelectSeq(raws, LAMBDA r : \A n \in 1 .. Len(r) : r[n] # NUL)

\* e is raw without its newline
Stripped(raw, e) ==
    \/ raw = e \o <<NL>>
    \/ raw = e /\ (e = <<>> \/ e[Len(e)] # NL)

\* hist is exactly the newline-stripped lines of raws, in order
Records(hist, raws) ==
    /\ Len(hist) = Len(raws)
    /\ \A n \in 1 .. Len(raws) : Stripped(raws[n], hist[n])

\* C6: while the session runs, History is exactly the newline-stripped
\* non-NUL lines processed so far, in input order; the line being executed
\* is not in it yet; the history builtin lists those entries numbered from 1.
C6_HistoryRecordsLines ==
    /\ nread = Len(typed)
    /\ pc = "read" => Records(history, NonNul(typed))
    /\ pc \in {"exec", "fork", "close", "ret", "wait"} =>
        Records(history, NonNul(SubSeq(typed, 1, Len(typed) - 1)))
    /\ (pc = "ret" /\ cmdline.cmds = << <<W_history>> >>) =>
        /\ Len(sprinted) = Len(history)
        /\ \A n \in 1 .. Len(history) : sprinted[n] = <<n, history[n]>>
    /\ \A p \in Children :
        procs[p].act = "history" =>
            LET before == NonNul(SubSeq(typed, 1, procs[p].ln - 1))
            IN  /\ Len(procs[p].printed) = Len(before)
                /\ \A n \in 1 .. Len(before) :
                    /\ procs[p].printed[n][1] = n
                    /\ Stripped(before[n], procs[p].printed[n][2])

C6_Witness ==
    /\ pc = "ret"
    /\ cmdline.cmds = << <<W_history>> >>
    /\ Len(history) = 1
    /\ CmdLine_new(history[1]).ret = "none"
    /\ sprinted = << <<1, history[1]>> >>

\* C7 as claimed: the change-directory of a cd stage is never performed in
\* a forked child.
C7_CdNeverForked ==
    \A p \in Children : procs[p].act \notin {"chdir", "chdir_failed"}

\* C7 as amended: a cd that is the only stage of its line is executed in
\* the session process and never in a forked child; a cd that is a stage of
\* a pipeline of two or more stages is executed in that stage's child.
C7_SoleCdInSession ==
    /\ \A p \in Children :
        procs[p].act \in {"chdir", "chdir_failed"} =>
            /\ procs[p].kind # "only"
            /\ CmdLine_len(procs[p].cl) >= 2
    /\ (pc = "ret" /\ CmdLine_len(cmdline) = 1
            /\ Cmd_prog(cmdline.cmds[1]) = W_cd /\ Len(cmdline.cmds[1]) = 2) =>
        /\ pids = <<>>
        /\ sact \in {"chdir", "chdir_failed"}
        /\ sact = "chdir" => cwd = cmdline.cmds[1][2]

C7_Witness ==
    /\ pc = "ret"
    /\ cmdline.cmds = << <<W_cd, W_d>> >>
    /\ sact = "chdir"
    /\ cwd = W_d
    /\ procs = <<>>

\* the texts of the jobs of js that have a live process in ps, in order
LiveJobTexts(js, ps) ==
    LET sel == SelectSeq(js, LAMBDA j :
                    \E n \in 1 .. Len(j[1]) :
                        j[1][n] \in DOMAIN ps /\ Live(ps[j[1][n]]))
    IN  [n \in 1 .. Len(sel) |-> sel[n][2]]

\* C8: whenever jobs runs with no arguments, in the session or as a stage
\* of a pipeline, it prints the text of every Job that has a process still
\* running exactly once, and nothing for a Job whose processes have all
\* exited.
C8_JobsListsLiveJobs ==
    [][/\ (pc = "exec" /\ pc' = "ret" /\ cmdline.cmds = << <<W_jobs>> >>) =>
            sprinted' = LiveJobTexts(jobs, procs)
       /\ \A p \in DOMAIN procs :
            (procs[p].act = "none" /\ procs'[p].act = "jobs") =>
                procs'[p].printed = LiveJobTexts(procs[p].js, procs)]_vars

\* the part of C8 about jobs run in the session process
C8_SessionJobsListing ==
    [][(pc = "exec" /\ pc' = "ret" /\ cmdline.cmds = << <<W_jobs>> >>) =>
            sprinted' = LiveJobTexts(jobs, procs)]_vars

\* C9: every process closes the pipe and redirection descriptors it does
\* not need; a stage child that has started its command holds no pipe
\* descriptor besides the copies on its standard input and output, and the
\* session holds none once exec has returned.
C9_NoInheritedPipeFds ==
    /\ \A p \in Children : procs[p].act # "none" => procs[p].held = {}
    /\ pc = "ret" => sfds = {}

\* C10: a child whose redirection file could not be opened has exited with
\* status 1, has run no command and has nothing duplicated onto the slot of
\* that redirection; every stage of its line is forked all the same, and
\* the session's wait for it returns.
C10_RedirectFailureIsFatal ==
    \A p \in Children :
        procs[p].err # "none" =>
            /\ procs[p].st = "exited"
            /\ procs[p].status = 1
            /\ procs[p].ncmd = 0
            /\ procs[p].act = "none"
            /\ procs[p].err = "openr" => procs[p].fd0 = TTY
            /\ procs[p].err = "openw" => procs[p].fd1 = TTY
            /\ (procs[p].ln = nread /\ pc \in {"ret", "wait"}) =>
                /\ Len(pids) = CmdLine_len(cmdline)
                /\ \A q \in Range(pids) : procs[q].ln = procs[p].ln
            /\ (pc = "wait" /\ pids[widx] = p) => ENABLED WaitPid

C10_Witness ==
    /\ pc = "read"
    /\ Len(history) = 1
    /\ \E p \in Children :
        /\ procs[p].st = "reaped"
        /\ procs[p].status = 1
        /\ procs[p].kind = "last"

\* the tokens of the line read last
TypedTokens ==
    IF typed = <<>> THEN <<>> ELSE split_whitespace(typed[Len(typed)])

\* the parser returned None for the line read last: the session is back at
\* the read with the line in History and nothing parsed or forked
Rejected ==
    /\ pc = "read"
    /\ cmdline = NoCmdLine
    /\ procs = <<>>
    /\ history = <<strip_newline(typed[Len(typed)])>>

\* the line `< in`: an input redirection and its file name, nothing else
LoneInput(toks) == Len(toks) = 2 /\ toks[1] = LT /\ ~find(OPCHARS, toks[2])

\* a < somewhere after a |
LtAfterBar(toks) ==
    \E m, n \in 1 .. Len(toks) : m < n /\ toks[m] = BAR /\ toks[n] = LT

\* C11: the line `< in`, and every line with a `<` after a `|`, is
\* rejected: the parser yields None and nothing is executed.
C11_MisplacedInputRejected ==
    (nread = 1 /\ (LoneInput(TypedTokens) \/ LtAfterBar(TypedTokens))) =>
        Rejected

\* a | somewhere after a >
BarAfterGt(toks) ==
    \E m, n \in 1 .. Len(toks) : m < n /\ toks[m] = GT /\ toks[n] = BAR

\* C12: the parser never returns a Pipeline for a line with a `|` anywhere
\* after a `>`; in every accepted Pipeline the output file was named after
\* the last `|`, in the last stage.
C12_NoBarAfterGt ==
    /\ (nread = 1 /\ BarAfterGt(TypedTokens)) =>
        (pc \in {"read", "panic"} /\ cmdline = NoCmdLine /\ procs = <<>>)
    /\ (nread = 1 /\ cmdline.fileout # None) =>
        \E m \in 1 .. (Len(TypedTokens) - 1) :
            /\ TypedTokens[m] = GT
            /\ TypedTokens[m + 1] = cmdline.fileout[1]
            /\ \A n \in m .. Len(TypedTokens) : TypedTokens[n] # BAR

C12_Witness ==
    /\ TypedTokens = <<W_a, GT, W_f, BAR, W_a>>
    /\ Rejected

\* the number of arguments each builtin takes
Arity(prog) == IF prog \in {W_cd, W_kill} THEN 1 ELSE 0

WrongArity(cmd) == Cmd_is_builtin(cmd) /\ Len(cmd) - 1 # Arity(Cmd_prog(cmd))

\* C13: a builtin run with a wrong number of arguments does nothing.  In
\* the session: the working directory stays, the session goes on (it does
\* not exit), no child is signalled or reaped, nothing is listed, and the
\* line is appended to History when exec has returned.  In a stage child:
\* the child's directory stays, it lists nothing, signals no one and exits
\* with status 0 as after any command.
C13_WrongArityNoAction ==
    [][/\ (pc = "exec" /\ pc' # pc /\ CmdLine_len(cmdline) = 1
                /\ WrongArity(cmdline.cmds[1])) =>
            /\ pc' = "ret"
            /\ cwd' = cwd
            /\ procs' = procs
            /\ sprinted' = <<>>
            /\ pids' = <<>>
       /\ (pc = "ret" /\ pc' # pc /\ CmdLine_len(cmdline) = 1
                /\ WrongArity(cmdline.cmds[1])) =>
            /\ pc' = "read"
            /\ history' = Append(history, line)
       /\ \A p \in DOMAIN procs :
            (/\ procs[p].st = "forked"
             /\ procs'[p].ncmd = 1
             /\ WrongArity(procs[p].cl.cmds[procs[p].stage + 1])) =>
                /\ procs'[p].st = "exited"
                /\ procs'[p].status = 0
                /\ procs'[p].cwd = procs[p].cwd
                /\ procs'[p].printed = <<>>
                /\ \A q \in DOMAIN procs \ {p} : procs'[q] = procs[q]
                /\ UNCHANGED <<pc, cwd, history, jobs, sprinted>>]_vars

C13_Witness ==
    /\ pc = "wait"
    /\ history = << <<"e", "x", "i", "t", SP, "x">> >>
    /\ sact = "arity"
    /\ cwd = <<"/">>
    /\ \E p \in Children :
        /\ procs[p].act = "arity"
        /\ procs[p].cl.cmds[1] = <<W_cd>>
        /\ procs[p].st = "exited"

\* the tokens of a line without its final & token
WithoutMarker(toks) ==
    IF toks # <<>> /\ toks[Len(toks)] = AMP
    THEN SubSeq(toks, 1, Len(toks) - 1)
    ELSE toks

\* C14: the text of the Job recorded for an accepted background line is
\* the line's tokens without the final `&` token, joined by single spaces;
\* every other character of the command is kept.
C14_JobTextKeepsCommand ==
    /\ Len(jobs) = Len(BackLines)
    /\ \A n \in 1 .. Len(jobs) :
        jobs[n][2] =
            join(WithoutMarker(split_whitespace(BackLines[n])), <<SP>>)

\* C15: in a pipeline of N >= 2 stages all N-1 pipes exist before the first
\* fork (the session holds all their descriptors and the first child
\* inherits them all); once a stage child has started its command, stage
\* i < N-1 has the write end of pipe i on standard output and stage i > 0
\* the read end of pipe i-1 on standard input, the first stage's standard
\* input is the input file if one was given and else the session's, and the
\* last stage's standard output is the output file if one was given and
\* else the session's.
C15_PipelineWiring ==
    /\ (pc = "fork" /\ k = 0) =>
        /\ sfds = PipeFds(nread, CmdLine_len(cmdline))
        /\ \A p \in Children : procs[p].ln # nread
    /\ \A p \in Children :
        LET ch == procs[p]
            len == CmdLine_len(ch.cl)
            i == ch.stage
        IN
        len >= 2 =>
            /\ ch.kind = "first" => ch.held = PipeFds(ch.ln, len)
            /\ ch.ncmd = 1 =>
                /\ i < len - 1 => ch.fd1 = Pipe(ch.ln, i, WR)
                /\ i > 0 => ch.fd0 = Pipe(ch.ln, i - 1, RD)
                /\ i = 0 =>
                    ch.fd0 = IF ch.cl.filein = None THEN sio[1]
                             ELSE File(ch.cl.filein[1], "r")
                /\ i = len - 1 =>
                    ch.fd1 = IF ch.cl.fileout = None THEN sio[2]
                             ELSE File(ch.cl.fileout[1], "w")

C15_Witness ==
    \E p1, p2, p3 \in Children :
        /\ procs[p1].ncmd = 1 /\ procs[p2].ncmd = 1 /\ procs[p3].ncmd = 1
        /\ procs[p1].ln = procs[p2].ln /\ procs[p2].ln = procs[p3].ln
        /\ procs[p1].kind = "first" /\ procs[p1].fd0 = File(W_f, "r")
        /\ procs[p2].kind = "middle"
        /\ procs[p2].fd0 = Pipe(procs[p2].ln, 0, RD)
        /\ procs[p2].fd1 = Pipe(procs[p2].ln, 1, WR)
        /\ procs[p3].kind = "last" /\ procs[p3].fd1 = File(W_f, "w")

\* the session is executing a foreground pipeline of two or more stages
InForegroundPipeline ==
    /\ pc \in {"fork", "close", "ret", "wait"}
    /\ CmdLine_len(cmdline) >= 2
    /\ ~cmdline.back

\* the session is back at the read, every stage of the line has exited and
\* been reaped, and the pipe on the standard input of every later stage is
\* at end-of-stream
PipelineCompleted ==
    /\ pc = "read"
    /\ \A n \in 1 .. Len(pids) : procs[pids[n]].st = "reaped"
    /\ \A i \in 0 .. (Len(pids) - 2) : EndOfStream(nread, i)

\* C16: under fair scheduling, when the first stage of a foreground
\* pipeline of N >= 2 stages ends on its own and every later stage ends
\* once it reads end-of-stream on its standard input, every later stage's
\* standard input does come to end-of-stream, all N stages exit and are
\* reaped, and the session returns to reading the next line.
C16_EofPropagates == InForegroundPipeline ~> PipelineCompleted

C16_Witness ==
    /\ pc = "read"
    /\ Len(pids) = 3
    /\ \A n \in 1 .. Len(pids) :
        procs[pids[n]].st = "reaped" /\ procs[pids[n]].status = 0
    /\ EndOfStream(1, 0)
    /\ EndOfStream(1, 1)
    /\ history = << <<"a", SP, "|", SP, "a", SP, "|", SP, "a">> >>

\* C17: once stage i+1 of a pipeline, the reader of pipe i, has exited, no
\* live process holds the read end of pipe i any more (no child, and not
\* the session once it is through its closes), so that a write by stage i
\* fails as a broken pipe and cannot block.
C17_NoReaderLeftOpen ==
    \A p \in Children :
        (procs[p].stage > 0 /\ ~Live(procs[p])) =>
            LET readers == Holders(Pipe(procs[p].ln, procs[p].stage - 1, RD))
            IN  /\ readers \subseteq {0}
                /\ pc \in {"ret", "wait", "read"} => readers = {}

\* the parser returned Some for the one line read
Accepted == nread = 1 /\ pc \notin {"read", "panic"}

\* a token that is no operator and no file name
IsCommandWord(toks, n) ==
    /\ toks[n] \notin {AMP, BAR, LT, GT}
    /\ n = 1 \/ toks[n - 1] \notin {LT, GT}

CountBars(toks) == Cardinality({n \in 1 .. Len(toks) : toks[n] = BAR})

\* C18: no accepted Pipeline has an empty stage, and for every accepted
\* line with at least one command word the number of stages is the number
\* of `|` tokens of the line plus one.
C18_StagesCountBars ==
    Accepted =>
        /\ \A i \in 1 .. CmdLine_len(cmdline) : cmdline.cmds[i] # <<>>
        /\ (\E n \in 1 .. Len(TypedTokens) : IsCommandWord(TypedTokens, n)) =>
            CmdLine_len(cmdline) = CountBars(TypedTokens) + 1

\* the four operator tokens
Operators == {AMP, BAR, LT, GT}

\* a line the parser can reject for its file names only: `&` is last, no
\* `|` is first or follows a `|`, every `<` and `>` has a token after it,
\* no `<` comes after a `|` and no `|` after a `>`
OtherwiseLegal(toks) ==
    \A n \in 1 .. Len(toks) :
        /\ toks[n] = AMP => n = Len(toks)
        /\ toks[n] = BAR => (n > 1 /\ toks[n - 1] # BAR)
        /\ toks[n] \in {LT, GT} => n < Len(toks)
        /\ toks[n] = LT => \A m \in 1 .. n : toks[m] # BAR
        /\ toks[n] = GT => \A m \in n .. Len(toks) : toks[m] # BAR

\* the token at n follows a `<` or a `>`
IsFileName(toks, n) == n > 1 /\ toks[n - 1] \in {LT, GT}

\* the tokens after the last occurrence of op, as an Option
LastFileAfter(toks, op) ==
    IF \E n \in 1 .. Len(toks) : toks[n] = op
    THEN LET n == CHOOSE n \in 1 .. Len(toks) :
                    /\ toks[n] = op
                    /\ \A m \in (n + 1) .. Len(toks) : toks[m] # op
         IN  Some(toks[n + 1])
    ELSE None

RECURSIVE Flatten(_)
Flatten(seqs) == IF seqs = <<>> THEN <<>> ELSE seqs[1] \o Flatten(Tail(seqs))

\* the command words of a line, in order
CommandWords(toks) ==
    LET idx == {n \in 1 .. Len(toks) : IsCommandWord(toks, n)}
        RECURSIVE Pick(_)
        Pick(n) ==
            IF n > Len(toks) THEN <<>>
            ELSE (IF n \in idx THEN <<toks[n]>> ELSE <<>>) \o Pick(n + 1)
    IN  Pick(1)

\* C19: the token after a `<` or a `>` is rejected as a file name if and
\* only if it is one of the four operator tokens: a line that is legal
\* otherwise is rejected when one of its file names is an operator token,
\* and else it is not rejected, its last input and output file names are
\* recorded unchanged as filein and fileout, and no file name is among the
\* arguments of a stage.
C19_FileNameRule ==
    (nread = 1 /\ OtherwiseLegal(TypedTokens)) =>
        IF \E n \in 1 .. Len(TypedTokens) :
                IsFileName(TypedTokens, n) /\ TypedTokens[n] \in Operators
        THEN Rejected
        ELSE /\ pc # "read"
             /\ Accepted =>
                /\ cmdline.filein = LastFileAfter(TypedTokens, LT)
                /\ cmdline.fileout = LastFileAfter(TypedTokens, GT)
                /\ Flatten(cmdline.cmds) = CommandWords(TypedTokens)

\* C20: executing a line leaves the session's own standard input and
\* standard output as they were: every dup2 onto slot 0 or 1 and every open
\* of a redirection file is done by a forked child; a builtin that is the
\* only stage runs in the session with the line's redirections ignored, so
\* no process is forked for the line and no file is opened.
C20_SessionDescriptorsKept ==
    /\ sio = <<TTY, TTY>>
    /\ (pc = "ret" /\ CmdLine_len(cmdline) = 1
            /\ Cmd_is_builtin(cmdline.cmds[1])) =>
        /\ pids = <<>>
        /\ sact # "none"
        /\ \A p \in Children : procs[p].ln # nread

C20_Witness ==
    /\ pc = "ret"
    /\ cmdline.cmds = << <<W_pwd>> >>
    /\ cmdline.fileout = Some(W_f)
    /\ sact = "pwd"
    /\ sprinted = <<cwd>>
    /\ sio = <<TTY, TTY>>
    /\ history = << <<"a", SP, ">", SP, "f">> >>
    /\ procs[1].st = "reaped"
    /\ procs[1].status = 0

=============================================================================
